---- MODULE Spec2Model ----
(***************************************************************************)
(* State-machine model of src/src/index.js: the startup registration of    *)
(* reflected services (addReflectedService), and the ServerReflectionInfo  *)
(* bidirectional stream handler with its three event callbacks             *)
(* ('data', 'end', 'cancelled').                                           *)
(*                                                                         *)
(* Strings are sequences of one-character strings, so that template        *)
(* literals (`${packageName}${service.name}`), String.split and ===        *)
(* are computed character by character.                                    *)
(***************************************************************************)
EXTENDS Naturals, Sequences, FiniteSets, TLC

VARIABLES
    phase,                 \* position of start(): "registering", "serving", "exited"
    services,              \* const services = []           (index.js:35)
    fileDescriptorProtos,  \* const fileDescriptorProtos = [] (index.js:42)
    regNames,              \* history: qualified names handed to the registrations, in order
    received,              \* per stream: the requests delivered to the 'data' callback
    written,               \* per stream: the arguments of call.write, in call order
    endCalls,              \* per stream: number of call.end() invocations
    signals,               \* per stream: the 'end' / 'cancelled' events delivered, in order
    thrown,                \* per stream: an exception escaped the 'data' callback
    started                \* the streams ServerReflectionInfo has been invoked for

vars == <<phase, services, fileDescriptorProtos, regNames,
          received, written, endCalls, signals, thrown, started>>

(***************************************************************************)
(* Bounds of the model.                                                    *)
(***************************************************************************)
MaxServices == 2   \* registrations performed before the server listens
MaxRequests == 2   \* 'data' events delivered, over all streams

Sessions == {"s1", "s2"}

(***************************************************************************)
(* Program constants: the grpc.status codes the handler sends.             *)
(***************************************************************************)
NOT_FOUND == 5
UNIMPLEMENTED == 12

(***************************************************************************)
(* JavaScript values.                                                      *)
(***************************************************************************)
\* `undefined`, as the value of a request field that is not set.  It differs
\* from every string, the empty string included.
Undefined == <<"undefined">>

\* JS truthiness of a value that is a string or undefined.
\* Truthy as a test of presence: the empty string counts as set.
TruthyPresence(v) == v # Undefined

Truthy(v) == v # Undefined /\ v # <<>>

\* `${a}${b}`
Concat(a, b) == a \o b

RECURSIVE SplitFrom(_, _, _, _)
\* String.prototype.split(sep) on a one-character separator: the segments
\* between separators, from position i on, cur being the segment under way.
SplitFrom(str, sep, i, cur) ==
    IF i > Len(str) THEN <<cur>>
    ELSE IF str[i] = sep THEN <<cur>> \o SplitFrom(str, sep, i + 1, <<>>)
    ELSE SplitFrom(str, sep, i + 1, Append(cur, str[i]))

Split(str, sep) == SplitFrom(str, sep, 1, <<>>)

\* arr[k] with JS zero-based indexing; undefined past the end.
JsIndex(arr, k) == IF k + 1 <= Len(arr) THEN arr[k + 1] ELSE Undefined

(***************************************************************************)
(* Schema buffers and their decoding.  A buffer is a sequence of fields    *)
(* [tag, val]; FileDescriptorProto.decode reads them in order: a singular  *)
(* field keeps the last value read, a repeated field collects every value, *)
(* an absent field keeps its default ("" or []), and a field that cannot   *)
(* be read makes decode throw.                                             *)
(***************************************************************************)
Field(tag, val) == [tag |-> tag, val |-> val]

EmptyDescriptor ==
    [ok |-> TRUE, name |-> <<>>, package |-> <<>>,
     service |-> <<>>, messageType |-> <<>>, enumType |-> <<>>]

RECURSIVE DecodeFrom(_, _, _)
DecodeFrom(buf, i, fdp) ==
    IF i > Len(buf) THEN fdp
    ELSE LET f == buf[i] IN
         IF f.tag = "name" THEN DecodeFrom(buf, i + 1, [fdp EXCEPT !.name = f.val])
         ELSE IF f.tag = "package" THEN DecodeFrom(buf, i + 1, [fdp EXCEPT !.package = f.val])
         ELSE IF f.tag = "service"
              THEN DecodeFrom(buf, i + 1, [fdp EXCEPT !.service = Append(@, [name |-> f.val])])
         ELSE IF f.tag = "messageType"
              THEN DecodeFrom(buf, i + 1, [fdp EXCEPT !.messageType = Append(@, [name |-> f.val])])
         ELSE IF f.tag = "enumType"
              THEN DecodeFrom(buf, i + 1, [fdp EXCEPT !.enumType = Append(@, [name |-> f.val])])
         ELSE [fdp EXCEPT !.ok = FALSE]

\* descriptorProto.lookupType('google.protobuf.FileDescriptorProto').decode(proto)
Decode(proto) == DecodeFrom(proto, 1, EmptyDescriptor)

(***************************************************************************)
(* Service definitions.  A service definition is an object whose values    *)
(* are its method definitions; the code reads only the first one:          *)
(* Object.values(service)[0].path and .requestType?.fileDescriptorProtos.  *)
(***************************************************************************)
NoProtos == [defined |-> FALSE, bufs |-> <<>>]
Protos(bufs) == [defined |-> TRUE, bufs |-> bufs]

Method(path, protos) == [path |-> path, protos |-> protos]

\* The definition of a service named qn with one method: its path is
\* /$service/$method, as the comment of index.js:90 states.
MakeService(qn, protos) ==
    [methods |-> <<Method(<<"/">> \o qn \o <<"/">> \o <<"m">>, protos)>>]

\* A service definition without any method: Object.values(service)[0] is undefined.
EmptyService == [methods |-> <<>>]

HasMethod(service) == Len(service.methods) > 0

\* Object.values(service)[0]
FirstMethod(service) == service.methods[1]

(***************************************************************************)
(* The responses the handler writes.                                       *)
(***************************************************************************)
\* Object.values(service)[0].path.split('/')[1]
ServiceName(service) == JsIndex(Split(FirstMethod(service).path, "/"), 1)

\* ListServicesResponse that leaves out the services registered without
\* schema bytes.
ListServicesResponseWithProtosOnly(svcs) ==
    LET kept == SelectSeq(svcs, LAMBDA x : FirstMethod(x).protos.defined) IN
    [listServicesResponse |->
        [service |-> [i \in 1..Len(kept) |-> [name |-> ServiceName(kept[i])]]]]

ListServicesResponse(svcs) ==
    [listServicesResponse |->
        [service |-> [i \in 1..Len(svcs) |-> [name |-> ServiceName(svcs[i])]]]]

FileDescriptorResponse(protos) ==
    [fileDescriptorResponse |-> [fileDescriptorProto |-> protos]]

\* ErrorResponse sent together with an empty listServicesResponse.
ErrorResponseWithList(code) ==
    [errorResponse |-> [errorCode |-> code],
     listServicesResponse |-> [service |-> <<>>]]

ErrorResponse(code) == [errorResponse |-> [errorCode |-> code]]

NotFoundResponse == ErrorResponse(NOT_FOUND)

UnimplementedResponse == ErrorResponse(UNIMPLEMENTED)

(***************************************************************************)
(* The outcome of one run of the 'data' callback: the call.write arguments *)
(* in order, and whether an exception escaped the callback.                *)
(***************************************************************************)
Wrote(response) == [writes |-> <<response>>, threw |-> FALSE]
Threw == [writes |-> <<>>, threw |-> TRUE]

(***************************************************************************)
(* fileContainingSymbol: the match test of index.js:107-113.               *)
(***************************************************************************)
\* const packageName = fdp.package && `${fdp.package}.`;
PackagePrefix(fdp) ==
    IF fdp.package # <<>> THEN Concat(fdp.package, <<".">>) ELSE fdp.package

\* list.findIndex(x => `${packageName}${x.name}` === symbol) !== -1
NameMatch(list, prefix, symbol) ==
    \E i \in 1..Len(list) : Concat(prefix, list[i].name) = symbol

\* SymbolMatch that also accepts the bare name of a type of a packaged file.
SymbolMatchBareName(fdp, symbol) ==
    \/ fdp.package = symbol
    \/ NameMatch(fdp.service, <<>>, symbol)
    \/ NameMatch(fdp.messageType, <<>>, symbol)
    \/ NameMatch(fdp.enumType, <<>>, symbol)
    \/ NameMatch(fdp.service, PackagePrefix(fdp), symbol)
    \/ NameMatch(fdp.messageType, PackagePrefix(fdp), symbol)
    \/ NameMatch(fdp.enumType, PackagePrefix(fdp), symbol)

SymbolMatch(fdp, symbol) ==
    \/ fdp.package = symbol
    \/ NameMatch(fdp.service, PackagePrefix(fdp), symbol)
    \/ NameMatch(fdp.messageType, PackagePrefix(fdp), symbol)
    \/ NameMatch(fdp.enumType, PackagePrefix(fdp), symbol)

\* FilenameMatch that also accepts the package name of the file.
FilenameMatchOrPackage(fdp, filename) == fdp.name = filename \/ fdp.package = filename

\* if (fdp.name === fileByFilename)
FilenameMatch(fdp, filename) == fdp.name = filename

(***************************************************************************)
(* The two nested for-of loops, from group g, buffer b on.  Every buffer   *)
(* is decoded when the loop reaches it; a decode failure leaves the        *)
(* callback as an exception.                                               *)
(***************************************************************************)
RECURSIVE SymbolSearchOnlyMatch(_, _, _, _)
\* SymbolSearch that answers with the matching buffer instead of its group.
SymbolSearchOnlyMatch(fdps, g, b, symbol) ==
    IF g > Len(fdps) THEN Wrote(NotFoundResponse)
    ELSE IF b > Len(fdps[g]) THEN SymbolSearchOnlyMatch(fdps, g + 1, 1, symbol)
    ELSE LET fdp == Decode(fdps[g][b]) IN
         IF ~fdp.ok THEN Threw
         ELSE IF SymbolMatch(fdp, symbol)
              THEN Wrote(FileDescriptorResponse(<<fdps[g][b]>>))
         ELSE SymbolSearchOnlyMatch(fdps, g, b + 1, symbol)

RECURSIVE SymbolSearchSkipBad(_, _, _, _)
\* SymbolSearch with the decode guarded: a buffer that does not decode is
\* passed over and the search goes on.
SymbolSearchSkipBad(fdps, g, b, symbol) ==
    IF g > Len(fdps) THEN Wrote(NotFoundResponse)
    ELSE IF b > Len(fdps[g]) THEN SymbolSearchSkipBad(fdps, g + 1, 1, symbol)
    ELSE LET fdp == Decode(fdps[g][b]) IN
         IF ~fdp.ok THEN SymbolSearchSkipBad(fdps, g, b + 1, symbol)
         ELSE IF SymbolMatch(fdp, symbol) THEN Wrote(FileDescriptorResponse(fdps[g]))
         ELSE SymbolSearchSkipBad(fdps, g, b + 1, symbol)

RECURSIVE SymbolSearchDecodeAll(_, _, _, _)
\* SymbolSearch that decodes every buffer of a group before it looks at any
\* of them.
SymbolSearchDecodeAll(fdps, g, b, symbol) ==
    IF g > Len(fdps) THEN Wrote(NotFoundResponse)
    ELSE IF b > Len(fdps[g]) THEN SymbolSearchDecodeAll(fdps, g + 1, 1, symbol)
    ELSE IF \E k \in 1..Len(fdps[g]) : ~Decode(fdps[g][k]).ok THEN Threw
    ELSE IF SymbolMatch(Decode(fdps[g][b]), symbol)
         THEN Wrote(FileDescriptorResponse(fdps[g]))
    ELSE SymbolSearchDecodeAll(fdps, g, b + 1, symbol)

RECURSIVE SymbolSearch(_, _, _, _)
SymbolSearch(fdps, g, b, symbol) ==
    IF g > Len(fdps) THEN Wrote(NotFoundResponse)
    ELSE IF b > Len(fdps[g]) THEN SymbolSearch(fdps, g + 1, 1, symbol)
    ELSE LET fdp == Decode(fdps[g][b]) IN
         IF ~fdp.ok THEN Threw
         ELSE IF SymbolMatch(fdp, symbol) THEN Wrote(FileDescriptorResponse(fdps[g]))
         ELSE SymbolSearch(fdps, g, b + 1, symbol)

RECURSIVE FilenameSearch(_, _, _, _)
FilenameSearch(fdps, g, b, filename) ==
    IF g > Len(fdps) THEN Wrote(NotFoundResponse)
    ELSE IF b > Len(fdps[g]) THEN FilenameSearch(fdps, g + 1, 1, filename)
    ELSE LET fdp == Decode(fdps[g][b]) IN
         IF ~fdp.ok THEN Threw
         ELSE IF FilenameMatch(fdp, filename) THEN Wrote(FileDescriptorResponse(fdps[g]))
         ELSE FilenameSearch(fdps, g, b + 1, filename)

\* The listServices branch: services.map throws on a service without methods.
ListServicesBranch(svcs) ==
    IF \A i \in 1..Len(svcs) : HasMethod(svcs[i])
    THEN Wrote(ListServicesResponse(svcs))
    ELSE Threw

(***************************************************************************)
(* A request is the object handed to the 'data' callback: each of the five *)
(* fields of ServerReflectionRequest is a string or undefined.             *)
(***************************************************************************)
Request(ls, fcs, fbf, fce, aent) ==
    [listServices |-> ls, fileContainingSymbol |-> fcs, fileByFilename |-> fbf,
     fileContainingExtension |-> fce, allExtensionNumbersOfType |-> aent]

\* HandleData without the final call.write of index.js:165: a request no
\* branch takes is dropped without an answer.
HandleDataSilent(request, svcs, fdps) ==
    IF Truthy(request.listServices) THEN ListServicesBranch(svcs)
    ELSE IF Truthy(request.fileContainingSymbol)
         THEN SymbolSearch(fdps, 1, 1, request.fileContainingSymbol)
    ELSE IF Truthy(request.fileByFilename)
         THEN FilenameSearch(fdps, 1, 1, request.fileByFilename)
    ELSE [writes |-> <<>>, threw |-> FALSE]

\* HandleData without the `return` of index.js:96: after the listServices
\* response the callback goes on to the remaining branches.
HandleDataNoReturn(request, svcs, fdps) ==
    LET rest ==
          IF Truthy(request.fileContainingSymbol)
          THEN SymbolSearch(fdps, 1, 1, request.fileContainingSymbol)
          ELSE IF Truthy(request.fileByFilename)
               THEN FilenameSearch(fdps, 1, 1, request.fileByFilename)
          ELSE Wrote(UnimplementedResponse)
        first == ListServicesBranch(svcs)
    IN IF Truthy(request.listServices)
       THEN IF first.threw THEN first
            ELSE [writes |-> first.writes \o rest.writes, threw |-> rest.threw]
       ELSE rest

\* HandleData with the fileByFilename branch tested before the
\* fileContainingSymbol branch.
HandleDataFilenameFirst(request, svcs, fdps) ==
    IF Truthy(request.listServices) THEN ListServicesBranch(svcs)
    ELSE IF Truthy(request.fileByFilename)
         THEN FilenameSearch(fdps, 1, 1, request.fileByFilename)
    ELSE IF Truthy(request.fileContainingSymbol)
         THEN SymbolSearch(fdps, 1, 1, request.fileContainingSymbol)
    ELSE Wrote(UnimplementedResponse)

\* The body of call.on('data', request => { ... }).
HandleData(request, svcs, fdps) ==
    IF Truthy(request.listServices) THEN ListServicesBranch(svcs)
    ELSE IF Truthy(request.fileContainingSymbol)
         THEN SymbolSearch(fdps, 1, 1, request.fileContainingSymbol)
    ELSE IF Truthy(request.fileByFilename)
         THEN FilenameSearch(fdps, 1, 1, request.fileByFilename)
    ELSE Wrote(UnimplementedResponse)

(***************************************************************************)
(* The values the model draws its inputs from.                             *)
(***************************************************************************)
sA == <<"a">>
sB == <<"b">>
sC == <<"c">>
sAB == <<"a", ".", "b">>
sABA == <<"a", ".", "b", ".", "a">>
sF == <<"f">>
sG == <<"g">>

\* file f, package a, service b, message a: the symbols a, a.b, a.a
bufGreeter ==
    <<Field("name", sF), Field("package", sA), Field("service", sB),
      Field("messageType", sA)>>
\* file g, package a.b, enum a: the symbols a.b, a.b.a
bufNested == <<Field("name", sG), Field("package", sAB), Field("enumType", sA)>>
\* file f, no package, message a, enum b: the symbols a, b and the empty package
bufBare == <<Field("messageType", sA), Field("enumType", sB), Field("name", sF)>>
\* no file name, package b, a package written twice (the last one counts)
bufNoName == <<Field("package", sA), Field("package", sB)>>
\* a buffer decode cannot read to its end
bufBad == <<Field("name", sG), Field("truncated", <<>>)>>

Groups ==
    { <<>>, <<bufGreeter>>, <<bufNested>>, <<bufBare>>, <<bufNoName>>, <<bufBad>>,
      <<bufGreeter, bufNested>>, <<bufNested, bufGreeter>>,
      <<bufBad, bufGreeter>>, <<bufGreeter, bufBad>> }

\* A registration input: the qualified name of the service and its definition.
Def(qn, service) == [qn |-> qn, service |-> service]

ServiceDefs ==
    { Def(qn, MakeService(qn, NoProtos)) : qn \in {sAB, sB} }
    \cup { Def(qn, MakeService(qn, Protos(g))) : qn \in {sAB, sB}, g \in Groups }
    \cup { Def(sC, EmptyService) }

\* The registrations of the session model: few, so that the interleavings
\* of several streams stay explorable.
StartupDefs ==
    { Def(sAB, MakeService(sAB, Protos(<<bufGreeter>>))),
      Def(sB, MakeService(sB, NoProtos)),
      Def(sB, MakeService(sB, Protos(<<bufBad, bufNested>>))),
      Def(sC, EmptyService) }

StringArgs == {<<>>, sA, sB, sC, sAB, sABA, sF, sG}

\* One field set (to any string, the empty one included), or none.
OneFieldRequests ==
    { Request(v, Undefined, Undefined, Undefined, Undefined) : v \in {<<>>, sA} }
    \cup { Request(Undefined, v, Undefined, Undefined, Undefined) : v \in StringArgs }
    \cup { Request(Undefined, Undefined, v, Undefined, Undefined) : v \in StringArgs }
    \cup { Request(Undefined, Undefined, Undefined, v, Undefined) : v \in {<<>>, sA} }
    \cup { Request(Undefined, Undefined, Undefined, Undefined, v) : v \in {<<>>, sA} }
    \cup { Request(Undefined, Undefined, Undefined, Undefined, Undefined) }

\* Several fields set on one request object.
ManyFieldRequests ==
    { Request(sA, sA, Undefined, Undefined, Undefined),
      Request(sA, Undefined, sF, Undefined, Undefined),
      Request(<<>>, sA, Undefined, Undefined, Undefined),
      Request(Undefined, sAB, sF, Undefined, Undefined),
      Request(Undefined, <<>>, sG, Undefined, Undefined),
      Request(Undefined, sC, Undefined, sA, Undefined),
      Request(sA, sAB, sG, Undefined, Undefined) }

Requests == OneFieldRequests \cup ManyFieldRequests

SessionRequests ==
    { Request(sA, Undefined, Undefined, Undefined, Undefined),
      Request(Undefined, sAB, Undefined, Undefined, Undefined),
      Request(Undefined, Undefined, sG, Undefined, Undefined),
      Request(Undefined, Undefined, Undefined, sA, Undefined) }

(***************************************************************************)
(* The state after construction: start() has created the server and the    *)
(* two empty arrays, and no stream exists.                                 *)
(***************************************************************************)
Init ==
    /\ phase = "registering"
    /\ services = <<>>
    /\ fileDescriptorProtos = <<>>
    /\ regNames = <<>>
    /\ received = [s \in Sessions |-> <<>>]
    /\ written = [s \in Sessions |-> <<>>]
    /\ endCalls = [s \in Sessions |-> 0]
    /\ signals = [s \in Sessions |-> <<>>]
    /\ thrown = [s \in Sessions |-> FALSE]
    /\ started = {}

sessionVars == <<received, written, endCalls, signals, thrown, started>>
registryVars == <<services, fileDescriptorProtos, regNames>>

\* addReflectedService without the `if (protos)` of index.js:53: a group is
\* pushed for every service with a method, an empty one when it has no
\* fileDescriptorProtos.
AddReflectedServiceAlwaysPush(def) ==
    /\ phase = "registering"
    /\ Len(services) < MaxServices
    /\ services' = Append(services, def.service)
    /\ regNames' = Append(regNames, def.qn)
    /\ IF HasMethod(def.service)
       THEN /\ fileDescriptorProtos' =
                 Append(fileDescriptorProtos, FirstMethod(def.service).protos.bufs)
            /\ phase' = phase
       ELSE /\ fileDescriptorProtos' = fileDescriptorProtos
            /\ phase' = "exited"
    /\ UNCHANGED sessionVars

\* addReflectedService callable while the server is serving as well.
AddReflectedServiceAnyTime(def) ==
    /\ phase \in {"registering", "serving"}
    /\ Len(services) < MaxServices
    /\ services' = Append(services, def.service)
    /\ regNames' = Append(regNames, def.qn)
    /\ IF HasMethod(def.service)
       THEN /\ fileDescriptorProtos' =
                 IF FirstMethod(def.service).protos.defined
                 THEN Append(fileDescriptorProtos, FirstMethod(def.service).protos.bufs)
                 ELSE fileDescriptorProtos
            /\ phase' = phase
       ELSE /\ fileDescriptorProtos' = fileDescriptorProtos
            /\ phase' = "exited"
    /\ UNCHANGED sessionVars

(***************************************************************************)
(* addReflectedService(service, implementation), called by start() before  *)
(* it binds.  On a service without methods line 52 throws a TypeError      *)
(* after line 51 has pushed; start() rejects and the process exits.        *)
(***************************************************************************)
AddReflectedService(def) ==
    /\ phase = "registering"
    /\ Len(services) < MaxServices
    /\ services' = Append(services, def.service)
    /\ regNames' = Append(regNames, def.qn)
    /\ IF HasMethod(def.service)
       THEN /\ fileDescriptorProtos' =
                 IF FirstMethod(def.service).protos.defined
                 THEN Append(fileDescriptorProtos, FirstMethod(def.service).protos.bufs)
                 ELSE fileDescriptorProtos
            /\ phase' = phase
       ELSE /\ fileDescriptorProtos' = fileDescriptorProtos
            /\ phase' = "exited"
    /\ UNCHANGED sessionVars

\* server.bindAsync succeeds and server.start() runs: streams are accepted.
Listen ==
    /\ phase = "registering"
    /\ phase' = "serving"
    /\ UNCHANGED <<registryVars, sessionVars>>

\* server.bindAsync fails: start() rejects and the process exits.
BindFail ==
    /\ phase = "registering"
    /\ phase' = "exited"
    /\ UNCHANGED <<registryVars, sessionVars>>

(***************************************************************************)
(* ServerReflectionInfo(call): a stream is accepted and the three          *)
(* callbacks are attached to it.                                           *)
(***************************************************************************)
ServerReflectionInfo(s) ==
    /\ phase = "serving"
    /\ s \notin started
    /\ started' = started \cup {s}
    /\ UNCHANGED <<phase, registryVars, received, written, endCalls, signals, thrown>>

RECURSIVE SumLen(_, _)
SumLen(f, S) ==
    IF S = {} THEN 0
    ELSE LET x == CHOOSE y \in S : TRUE IN Len(f[x]) + SumLen(f, S \ {x})

\* The number of 'data' events delivered so far, over all streams.
TotalReceived == SumLen(received, Sessions)

\* A stream delivers events while its readable side has not ended and no
\* exception has escaped one of its callbacks.
Live(s) == phase = "serving" /\ s \in started /\ ~thrown[s]

HasSignal(s, sig) == \E i \in 1..Len(signals[s]) : signals[s][i] = sig

\* Data with the cancellation kept in one flag of the enclosing closure
\* instead of per call: once any stream is cancelled, no stream is written to.
DataSharedCancel(s, request) ==
    /\ phase = "serving" /\ s \in started /\ ~thrown[s]
    /\ \A i \in 1..Len(signals[s]) : signals[s][i] # "end"
    /\ TotalReceived < MaxRequests
    /\ LET out == HandleData(request, services, fileDescriptorProtos) IN
         /\ received' = [received EXCEPT ![s] = Append(@, request)]
         /\ written' = [written EXCEPT ![s] =
                IF \E t \in Sessions : HasSignal(t, "cancelled") THEN @ ELSE @ \o out.writes]
         /\ thrown' = [thrown EXCEPT ![s] = out.threw]
    /\ UNCHANGED <<phase, registryVars, endCalls, signals, started>>

\* Data whose search takes the groups off the front of fileDescriptorProtos
\* (shift) instead of iterating over them.
DataConsuming(s, request) ==
    /\ phase = "serving" /\ s \in started /\ ~thrown[s]
    /\ \A i \in 1..Len(signals[s]) : signals[s][i] # "end"
    /\ TotalReceived < MaxRequests
    /\ LET out == HandleData(request, services, fileDescriptorProtos) IN
         /\ received' = [received EXCEPT ![s] = Append(@, request)]
         /\ written' = [written EXCEPT ![s] = @ \o out.writes]
         /\ thrown' = [thrown EXCEPT ![s] = out.threw]
    /\ fileDescriptorProtos' =
         IF Truthy(request.listServices) \/ fileDescriptorProtos = <<>>
         THEN fileDescriptorProtos ELSE Tail(fileDescriptorProtos)
    /\ UNCHANGED <<phase, services, regNames, endCalls, signals, started>>

\* Data with the responses queued in front of the earlier ones.
DataPrepend(s, request) ==
    /\ phase = "serving" /\ s \in started /\ ~thrown[s]
    /\ \A i \in 1..Len(signals[s]) : signals[s][i] # "end"
    /\ TotalReceived < MaxRequests
    /\ LET out == HandleData(request, services, fileDescriptorProtos) IN
         /\ received' = [received EXCEPT ![s] = Append(@, request)]
         /\ written' = [written EXCEPT ![s] = out.writes \o @]
         /\ thrown' = [thrown EXCEPT ![s] = out.threw]
    /\ UNCHANGED <<phase, registryVars, endCalls, signals, started>>

(***************************************************************************)
(* call.on('data', request => ...): runs to completion on one request.     *)
(* No 'data' event follows 'end' on a readable stream; one may follow      *)
(* 'cancelled', which the code does not record.                            *)
(***************************************************************************)
Data(s, request) ==
    /\ Live(s)
    /\ ~HasSignal(s, "end")
    /\ TotalReceived < MaxRequests
    /\ LET out == HandleData(request, services, fileDescriptorProtos) IN
         /\ received' = [received EXCEPT ![s] = Append(@, request)]
         /\ written' = [written EXCEPT ![s] = @ \o out.writes]
         /\ thrown' = [thrown EXCEPT ![s] = out.threw]
    /\ UNCHANGED <<phase, registryVars, endCalls, signals, started>>

\* call.on('end', () => { call.end(); })
End(s) ==
    /\ Live(s)
    /\ ~HasSignal(s, "end")
    /\ endCalls' = [endCalls EXCEPT ![s] = @ + 1]
    /\ signals' = [signals EXCEPT ![s] = Append(@, "end")]
    /\ UNCHANGED <<phase, registryVars, received, written, thrown, started>>

\* call.on('cancelled', () => { console.log(...) }): nothing is recorded.
Cancelled(s) ==
    /\ Live(s)
    /\ ~HasSignal(s, "cancelled")
    /\ signals' = [signals EXCEPT ![s] = Append(@, "cancelled")]
    /\ UNCHANGED <<phase, registryVars, received, written, endCalls, thrown, started>>

(***************************************************************************)
(* The session model: startup, then any interleaving of the events of the  *)
(* streams.                                                                *)
(***************************************************************************)
Next ==
    \/ \E def \in StartupDefs : AddReflectedService(def)
    \/ Listen
    \/ BindFail
    \/ \E s \in Sessions : ServerReflectionInfo(s)
    \/ \E s \in Sessions, request \in SessionRequests : Data(s, request)
    \/ \E s \in Sessions : End(s)
    \/ \E s \in Sessions : Cancelled(s)

Spec == Init /\ [][Next]_vars

(***************************************************************************)
(* The lookup model: any registry built from ServiceDefs, then one stream  *)
(* that is handed one request out of Requests.                             *)
(***************************************************************************)
TheStream == CHOOSE s \in Sessions : TRUE

\* The first 'data' event of a stream.
FirstData(s, request) == received[s] = <<>> /\ Data(s, request)

NextLookup ==
    \/ \E def \in ServiceDefs : AddReflectedService(def)
    \/ Listen
    \/ ServerReflectionInfo(TheStream)
    \/ \E request \in Requests : FirstData(TheStream, request)

SpecLookup == Init /\ [][NextLookup]_vars

\* The state the protocol of the specification assigns to a stream: Open
\* until the first 'end' (Closed) or 'cancelled' (Cancelled) event.
SessionState(s) ==
    IF signals[s] = <<>> THEN "Open"
    ELSE IF signals[s][1] = "end" THEN "Closed"
    ELSE "Cancelled"

TypeOK ==
    /\ phase \in {"registering", "serving", "exited"}
    /\ Len(services) <= MaxServices
    /\ Len(fileDescriptorProtos) <= Len(services)
    /\ started \subseteq Sessions
    /\ \A s \in Sessions : Len(written[s]) <= Len(received[s])

(***************************************************************************)
(* Vocabulary of the specification, used to state the claims.              *)
(***************************************************************************)
\* A buffer the Schema Decoder can parse.
Readable(buf) ==
    \A i \in 1..Len(buf) :
        buf[i].tag \in {"name", "package", "service", "messageType", "enumType"}

\* Qualified name: {packageName}.{name} if packageName is non-empty, else {name}.
Qualify(pkg, n) == IF pkg = <<>> THEN n ELSE pkg \o <<".">> \o n

Names(list) == { list[i].name : i \in 1..Len(list) }

\* The package name and the qualified service, message and enum names of a
\* readable buffer.
DeclaredSymbols(buf) ==
    LET d == Decode(buf) IN
    {d.package}
    \cup { Qualify(d.package, n) : n \in Names(d.service) }
    \cup { Qualify(d.package, n) : n \in Names(d.messageType) }
    \cup { Qualify(d.package, n) : n \in Names(d.enumType) }

DeclaresSymbol(buf, symbol) == Readable(buf) /\ symbol \in DeclaredSymbols(buf)

DeclaresFile(buf, filename) == Readable(buf) /\ Decode(buf).name = filename

\* The positions <<group, buffer>> of the registry, and the search order.
Positions(fdps) ==
    UNION { { <<g, b>> : b \in 1..Len(fdps[g]) } : g \in 1..Len(fdps) }

Before(p, q) == p[1] < q[1] \/ (p[1] = q[1] /\ p[2] < q[2])

At(fdps, p) == fdps[p[1]][p[2]]

\* A request field is populated when it carries a non-empty string.
Populated(v) == v # Undefined /\ v # <<>>

\* The kind of a request by the priority of its populated fields.
IsListRequest(request) == Populated(request.listServices)
IsSymbolRequest(request) ==
    ~Populated(request.listServices) /\ Populated(request.fileContainingSymbol)
IsFilenameRequest(request) ==
    /\ ~Populated(request.listServices) /\ ~Populated(request.fileContainingSymbol)
    /\ Populated(request.fileByFilename)

\* The search of the request reaches an unreadable buffer before any match.
SymbolSearchFails(fdps, symbol) ==
    \E p \in Positions(fdps) :
        /\ ~Readable(At(fdps, p))
        /\ \A q \in Positions(fdps) : Before(q, p) =>
               Readable(At(fdps, q)) /\ ~DeclaresSymbol(At(fdps, q), symbol)

FilenameSearchFails(fdps, filename) ==
    \E p \in Positions(fdps) :
        /\ ~Readable(At(fdps, p))
        /\ \A q \in Positions(fdps) : Before(q, p) =>
               Readable(At(fdps, q)) /\ ~DeclaresFile(At(fdps, q), filename)

HitsMalformed(request, fdps) ==
    \/ IsSymbolRequest(request) /\ SymbolSearchFails(fdps, request.fileContainingSymbol)
    \/ IsFilenameRequest(request) /\ FilenameSearchFails(fdps, request.fileByFilename)

Last(seq) == seq[Len(seq)]

\* s has just been handed a request, in the step under consideration.
GotRequest(s) == received'[s] # received[s]

(***************************************************************************)
(* C1 (as stated): every request received while the session is Open        *)
(* causes exactly one call.write, before the next request is processed.    *)
(* Violated: a request whose search decodes an unreadable buffer writes    *)
(* nothing.                                                                *)
(***************************************************************************)
C1_AsStated ==
    [][\A s \in Sessions :
         (GotRequest(s) /\ SessionState(s) = "Open")
             => Len(written'[s]) = Len(written[s]) + 1]_vars

(***************************************************************************)
(* C1 (amended): every request received while the session is Open causes   *)
(* exactly one call.write within the run of the callback, except a request *)
(* whose search reaches an unreadable buffer before any match: that one    *)
(* writes nothing and the exception leaves the callback.                   *)
(***************************************************************************)
C1_OneResponsePerRequest ==
    [][\A s \in Sessions :
         (GotRequest(s) /\ SessionState(s) = "Open") =>
             IF HitsMalformed(Last(received'[s]), fileDescriptorProtos)
             THEN written'[s] = written[s] /\ thrown'[s]
             ELSE /\ Len(written'[s]) = Len(written[s]) + 1
                  /\ Len(written'[s]) = Len(received'[s])
                  /\ ~thrown'[s]]_vars

C1_Witness ==
    \E s \in Sessions :
        /\ SessionState(s) = "Open"
        /\ Len(received[s]) = 2 /\ Len(written[s]) = 2
        /\ written[s][1] # written[s][2]

(***************************************************************************)
(* C2 (as stated): on one stream the k-th response written answers the     *)
(* k-th request received while Open, and n requests give n responses.      *)
(* Violated by the request that reaches an unreadable buffer.              *)
(***************************************************************************)
Answer(request) == HandleData(request, services, fileDescriptorProtos).writes

AllReceivedWhileOpen(s) == SessionState(s) \in {"Open", "Closed"}

C2_AsStated ==
    \A s \in Sessions : AllReceivedWhileOpen(s) =>
        /\ Len(written[s]) = Len(received[s])
        /\ \A k \in 1..Len(received[s]) : Answer(received[s][k]) = <<written[s][k]>>

(***************************************************************************)
(* C2 (amended): on one stream the responses written are, in order, the    *)
(* answers to the requests received while Open; every request has its      *)
(* answer except one that reaches an unreadable buffer, which has none and *)
(* is the last request the stream processes.                               *)
(***************************************************************************)
C2_ResponsesInRequestOrder ==
    \A s \in Sessions : AllReceivedWhileOpen(s) =>
        /\ Len(written[s]) = Len(received[s]) - (IF thrown[s] THEN 1 ELSE 0)
        /\ \A k \in 1..Len(written[s]) : Answer(received[s][k]) = <<written[s][k]>>
        /\ thrown[s] => HitsMalformed(Last(received[s]), fileDescriptorProtos)

C2_Witness ==
    \E s \in Sessions :
        /\ AllReceivedWhileOpen(s)
        /\ Len(received[s]) = 2 /\ Len(written[s]) = 2
        /\ written[s][1] # written[s][2]
        /\ Answer(received[s][2]) = <<written[s][2]>>

(***************************************************************************)
(* Claims about the answer to one request, checked under SpecLookup.       *)
(***************************************************************************)
\* The stream has been handed exactly one request, which is TheRequest(s).
Asked(s) == Len(received[s]) = 1
TheRequest(s) == received[s][1]

\* A request whose one populated field, among the three the handler reads,
\* is the named one.
IsFileContainingSymbol(request) ==
    /\ Populated(request.fileContainingSymbol)
    /\ ~Populated(request.listServices) /\ ~Populated(request.fileByFilename)
IsFileByFilename(request) ==
    /\ Populated(request.fileByFilename)
    /\ ~Populated(request.listServices) /\ ~Populated(request.fileContainingSymbol)

\* A request in which the listServices field is present, whatever it
\* carries, and no other field is.
IsListServicesPresent(request) ==
    /\ request.listServices # Undefined
    /\ request.fileContainingSymbol = Undefined /\ request.fileByFilename = Undefined
    /\ request.fileContainingExtension = Undefined
    /\ request.allExtensionNumbersOfType = Undefined

SomeBuffer(fdps, Hit(_)) == \E p \in Positions(fdps) : Hit(At(fdps, p))

\* The group of the first buffer, in group order then buffer order, that Hit accepts.
FirstGroup(fdps, Hit(_)) ==
    LET p == CHOOSE q \in Positions(fdps) :
                 /\ Hit(At(fdps, q))
                 /\ \A r \in Positions(fdps) : Before(r, q) => ~Hit(At(fdps, r))
    IN fdps[p[1]]

(***************************************************************************)
(* C3: after N registrations, with or without schema bytes, a listServices *)
(* request (one the handler dispatches to the listServices branch) is      *)
(* answered with a listServicesResponse of exactly N entries {name}, the   *)
(* i-th being the qualified name of the i-th registered service.           *)
(***************************************************************************)
C3_ListServicesComplete ==
    \A s \in Sessions :
        (Asked(s) /\ IsListRequest(TheRequest(s))) =>
            /\ Len(regNames) = Len(services)
            /\ written[s] =
                 << [listServicesResponse |->
                       [service |-> [i \in 1..Len(regNames) |-> [name |-> regNames[i]]]]] >>

C3_Witness ==
    \E s \in Sessions :
        /\ Asked(s) /\ IsListRequest(TheRequest(s))
        /\ Len(services) = 2 /\ Len(fileDescriptorProtos) = 1
        /\ Len(written[s]) = 1
        /\ Len(written[s][1].listServicesResponse.service) = 2
        /\ regNames[1] # regNames[2]

(***************************************************************************)
(* C4 (as stated): for every symbol that equals the package name or a      *)
(* qualified service, message or enum name of some buffer of some group,   *)
(* fileContainingSymbol(symbol) is answered with the whole first group     *)
(* that contains a matching buffer.  Violated when an unreadable buffer    *)
(* is placed before the first match.                                       *)
(***************************************************************************)
C4_AsStated ==
    \A s \in Sessions :
        LET sym == TheRequest(s).fileContainingSymbol IN
        (/\ Asked(s) /\ IsFileContainingSymbol(TheRequest(s))
         /\ SomeBuffer(fileDescriptorProtos, LAMBDA buf : DeclaresSymbol(buf, sym)))
        => written[s] =
             << FileDescriptorResponse(
                    FirstGroup(fileDescriptorProtos, LAMBDA buf : DeclaresSymbol(buf, sym))) >>

(***************************************************************************)
(* C4 (amended): for every symbol that equals the package name or a        *)
(* qualified service, message or enum name of some readable buffer,        *)
(* fileContainingSymbol(symbol) is answered with all buffers of the first  *)
(* group containing a matching buffer, unmodified and in order, when every *)
(* buffer before the first matching one decodes; when an unreadable buffer *)
(* comes first, nothing is written and the exception leaves the callback.  *)
(***************************************************************************)
C4_SymbolFound ==
    \A s \in Sessions :
        LET sym == TheRequest(s).fileContainingSymbol IN
        (/\ Asked(s) /\ IsFileContainingSymbol(TheRequest(s))
         /\ SomeBuffer(fileDescriptorProtos, LAMBDA buf : DeclaresSymbol(buf, sym)))
        => IF SymbolSearchFails(fileDescriptorProtos, sym)
           THEN written[s] = <<>> /\ thrown[s]
           ELSE /\ ~thrown[s]
                /\ written[s] =
                     << FileDescriptorResponse(
                            FirstGroup(fileDescriptorProtos,
                                       LAMBDA buf : DeclaresSymbol(buf, sym))) >>

\* The second buffer of the first group matches, the first does not, and a
\* later group matches as well: the whole first group is the answer.
C4_Witness ==
    \E s \in Sessions :
        LET sym == TheRequest(s).fileContainingSymbol IN
        /\ Asked(s) /\ IsFileContainingSymbol(TheRequest(s))
        /\ Len(fileDescriptorProtos) = 2
        /\ Len(fileDescriptorProtos[1]) = 2
        /\ ~DeclaresSymbol(fileDescriptorProtos[1][1], sym)
        /\ DeclaresSymbol(fileDescriptorProtos[1][2], sym)
        /\ Len(fileDescriptorProtos[2]) = 1
        /\ DeclaresSymbol(fileDescriptorProtos[2][1], sym)
        /\ fileDescriptorProtos[2] # fileDescriptorProtos[1]
        /\ written[s] = <<FileDescriptorResponse(fileDescriptorProtos[1])>>

NoRecognizedField(request) ==
    /\ ~Populated(request.listServices)
    /\ ~Populated(request.fileContainingSymbol)
    /\ ~Populated(request.fileByFilename)

C7_Unimplemented ==
    \A s \in Sessions :
        (Asked(s) /\ NoRecognizedField(TheRequest(s))) =>
            /\ written[s] = <<[errorResponse |-> [errorCode |-> UNIMPLEMENTED]]>>
            /\ ~thrown[s]

C7_Witness ==
    \E s \in Sessions :
        /\ Asked(s) /\ NoRecognizedField(TheRequest(s))
        /\ TheRequest(s).allExtensionNumbersOfType = sA
        /\ Len(fileDescriptorProtos) = 2
        /\ written[s] = <<UnimplementedResponse>>

(***************************************************************************)
(* C8 (as stated): a request in which the listServices field is present is *)
(* answered with a listServicesResponse for every value of the carried     *)
(* string, the empty string included.  Violated: the empty string is       *)
(* falsy, and the request falls through to the other branches.             *)
(***************************************************************************)
C8_AsStated ==
    \A s \in Sessions :
        (Asked(s) /\ IsListServicesPresent(TheRequest(s))) =>
            /\ Len(written[s]) = 1
            /\ DOMAIN written[s][1] = {"listServicesResponse"}

(***************************************************************************)
(* Claims about the life of a stream, checked under Spec.                  *)
(***************************************************************************)
(***************************************************************************)
(* C9 (as stated): once a stream has received 'cancelled', nothing more is *)
(* written on it.  Violated: the 'cancelled' callback records nothing, and *)
(* a 'data' event delivered after it is answered with call.write.          *)
(***************************************************************************)
C9_AsStated ==
    [][\A s \in Sessions :
         HasSignal(s, "cancelled") => written'[s] = written[s]]_vars

(***************************************************************************)
(* C10 (as stated): a stream starts Open; 'end' received while Open moves  *)
(* it to Closed with one call.end() and no write; Closed and Cancelled are *)
(* terminal: afterwards the state does not change, nothing is written and  *)
(* call.end() is not invoked.  Violated: after 'cancelled' the callbacks   *)
(* still write and still call call.end().                                  *)
(***************************************************************************)
C10_AsStated ==
    [][\A s \in Sessions :
         /\ (s \in started' /\ s \notin started) => SessionState(s)' = "Open"
         /\ (SessionState(s) = "Open" /\ HasSignal(s, "end")') =>
                /\ SessionState(s)' = "Closed"
                /\ endCalls'[s] = endCalls[s] + 1
                /\ written'[s] = written[s]
         /\ SessionState(s) # "Open" =>
                /\ SessionState(s)' = SessionState(s)
                /\ written'[s] = written[s]
                /\ endCalls'[s] = endCalls[s]]_vars

(***************************************************************************)
(* The answer the specification assigns to a request, from the request and *)
(* the registry alone: the names registered, the groups stored.            *)
(***************************************************************************)
SpecOutcome(request, names, fdps) ==
    IF IsListRequest(request)
    THEN Wrote([listServicesResponse |->
                  [service |-> [i \in 1..Len(names) |-> [name |-> names[i]]]]])
    ELSE IF IsSymbolRequest(request)
    THEN LET sym == request.fileContainingSymbol IN
         IF SymbolSearchFails(fdps, sym) THEN Threw
         ELSE IF SomeBuffer(fdps, LAMBDA buf : DeclaresSymbol(buf, sym))
         THEN Wrote(FileDescriptorResponse(
                        FirstGroup(fdps, LAMBDA buf : DeclaresSymbol(buf, sym))))
         ELSE Wrote(NotFoundResponse)
    ELSE IF IsFilenameRequest(request)
    THEN LET fn == request.fileByFilename IN
         IF FilenameSearchFails(fdps, fn) THEN Threw
         ELSE IF SomeBuffer(fdps, LAMBDA buf : DeclaresFile(buf, fn))
         THEN Wrote(FileDescriptorResponse(
                        FirstGroup(fdps, LAMBDA buf : DeclaresFile(buf, fn))))
         ELSE Wrote(NotFoundResponse)
    ELSE Wrote(UnimplementedResponse)

\* Nothing of stream t changes in the step.
StreamUntouched(t) ==
    /\ received'[t] = received[t] /\ written'[t] = written[t]
    /\ thrown'[t] = thrown[t] /\ signals'[t] = signals[t]
    /\ endCalls'[t] = endCalls[t]

\* Stream s handles an event in the step.
GotEvent(s) == GotRequest(s) \/ signals'[s] # signals[s]

(***************************************************************************)
(* C11: with several streams running in any interleaving, a request handed *)
(* to a stream is answered on that stream by what the request and the      *)
(* registry alone determine, whatever the stream received before and       *)
(* whatever the other streams received, ended or cancelled; and an event   *)
(* of one stream changes nothing of any other stream.                      *)
(***************************************************************************)
C11_SessionsIsolated ==
    [][\A s \in Sessions :
         /\ GotRequest(s) =>
              LET out == SpecOutcome(Last(received'[s]), regNames, fileDescriptorProtos) IN
              /\ written'[s] = written[s] \o out.writes
              /\ thrown'[s] = out.threw
         /\ GotEvent(s) => \A t \in Sessions \ {s} : StreamUntouched(t)]_vars

\* Both streams have been answered, differently, and one of them was
\* cancelled before the other was handed its request.
C11_Witness ==
    \E s, t \in Sessions :
        /\ s # t
        /\ Len(received[s]) = 1 /\ Len(received[t]) = 1
        /\ Len(written[s]) = 1 /\ Len(written[t]) = 1
        /\ written[s] # written[t]
        /\ HasSignal(t, "cancelled") /\ HasSignal(s, "end")

\* The fields of a request that carry a non-empty string.
PopulatedFields(request) == { f \in DOMAIN request : Populated(request[f]) }

\* The request with nothing but its highest-priority populated field, in the
\* order listServices, fileContainingSymbol, fileByFilename.
HighestPriorityOnly(request) ==
    IF Populated(request.listServices)
    THEN Request(request.listServices, Undefined, Undefined, Undefined, Undefined)
    ELSE IF Populated(request.fileContainingSymbol)
    THEN Request(Undefined, request.fileContainingSymbol, Undefined, Undefined, Undefined)
    ELSE IF Populated(request.fileByFilename)
    THEN Request(Undefined, Undefined, request.fileByFilename, Undefined, Undefined)
    ELSE Request(Undefined, Undefined, Undefined, Undefined, Undefined)

(***************************************************************************)
(* C12: a request with more than one field populated is handled as the     *)
(* request that carries only its highest-priority populated field, in the  *)
(* order listServices, fileContainingSymbol, fileByFilename, none          *)
(* (UNIMPLEMENTED): the same single response, or the same failure, and     *)
(* never a second response for a lower-priority field.                     *)
(***************************************************************************)
C12_DispatchPriority ==
    \A s \in Sessions :
        (Asked(s) /\ Cardinality(PopulatedFields(TheRequest(s))) > 1) =>
            LET out == SpecOutcome(HighestPriorityOnly(TheRequest(s)),
                                   regNames, fileDescriptorProtos) IN
            /\ written[s] = out.writes
            /\ thrown[s] = out.threw
            /\ Len(written[s]) <= 1

\* The symbol a.b is searched for although the file named f, asked for in
\* the same request, is stored in an earlier group.
C12_Witness ==
    \E s \in Sessions :
        /\ Asked(s)
        /\ TheRequest(s) = Request(Undefined, sAB, sF, Undefined, Undefined)
        /\ fileDescriptorProtos = << <<bufBare>>, <<bufGreeter>> >>
        /\ written[s] = <<FileDescriptorResponse(<<bufGreeter>>)>>

(***************************************************************************)
(* C13: when the search of a fileContainingSymbol or fileByFilename        *)
(* request reaches a stored buffer that does not decode, before any match, *)
(* nothing is written for the request (no fileDescriptorResponse from a    *)
(* later buffer or group, no NOT_FOUND) and the failure leaves the         *)
(* handler.                                                                *)
(***************************************************************************)
C13_DecodeFailurePropagates ==
    \A s \in Sessions :
        (Asked(s) /\ HitsMalformed(TheRequest(s), fileDescriptorProtos)) =>
            /\ written[s] = <<>>
            /\ thrown[s]

\* The unreadable buffer comes first in its group, followed by a buffer that
\* declares the symbol asked for.
C13_Witness ==
    \E s \in Sessions :
        /\ Asked(s)
        /\ TheRequest(s) = Request(Undefined, sAB, Undefined, Undefined, Undefined)
        /\ fileDescriptorProtos = << <<bufBad, bufGreeter>> >>
        /\ written[s] = <<>> /\ thrown[s]

\* A registered service that carries fileDescriptorProtos (rawSchemaBuffers
\* not absent).
HasSchema(service) == HasMethod(service) /\ FirstMethod(service).protos.defined

\* The groups of the schema-bearing services of svcs, in their order.
RECURSIVE SchemaGroups(_)
SchemaGroups(svcs) ==
    IF svcs = <<>> THEN <<>>
    ELSE LET rest == SchemaGroups(Tail(svcs)) IN
         IF HasSchema(Head(svcs))
         THEN <<FirstMethod(Head(svcs)).protos.bufs>> \o rest
         ELSE rest

(***************************************************************************)
(* C14: every change of the registry is one registration: one entry is     *)
(* appended to services, the earlier entries and groups staying as they    *)
(* are, and the service's buffers are appended to fileDescriptorProtos as  *)
(* one group iff the service carries them; hence, at all times, the groups *)
(* are exactly those of the schema-bearing services in registration order  *)
(* and they are no more than the services.                                 *)
(***************************************************************************)
C14_RegistryAppendOnly ==
    /\ [](/\ fileDescriptorProtos = SchemaGroups(services)
          /\ Len(fileDescriptorProtos) <= Len(services)
          /\ Len(regNames) = Len(services))
    /\ [][(services' # services \/ fileDescriptorProtos' # fileDescriptorProtos) =>
            /\ Len(services') = Len(services) + 1
            /\ SubSeq(services', 1, Len(services)) = services
            /\ fileDescriptorProtos' =
                 IF HasSchema(Last(services'))
                 THEN Append(fileDescriptorProtos,
                             FirstMethod(Last(services')).protos.bufs)
                 ELSE fileDescriptorProtos]_vars

\* A service without buffers was registered first, one with two buffers second.
C14_Witness ==
    /\ Len(services) = 2
    /\ ~HasSchema(services[1]) /\ HasSchema(services[2])
    /\ fileDescriptorProtos = << <<bufGreeter, bufNested>> >>

(***************************************************************************)
(* C15: a step in which a stream handles a request, an 'end' or a          *)
(* 'cancelled' leaves services and fileDescriptorProtos, with every group  *)
(* and its order, as they were.                                            *)
(***************************************************************************)
C15_EventsLeaveRegistry ==
    [][(\E s \in Sessions : GotEvent(s)) =>
          /\ services' = services
          /\ fileDescriptorProtos' = fileDescriptorProtos
          /\ regNames' = regNames]_vars

\* A search request, an 'end' and a 'cancelled' have been handled over a
\* registry that holds groups.
C15_Witness ==
    /\ fileDescriptorProtos # <<>>
    /\ \E s \in Sessions :
         /\ received[s] # <<>>
         /\ Truthy(Last(received[s]).fileContainingSymbol)
    /\ \E s \in Sessions : HasSignal(s, "end")
    /\ \E s \in Sessions : HasSignal(s, "cancelled")

(***************************************************************************)
(* C16: the registry changes only while start() is still registering,      *)
(* before bindAsync/server.start and before any stream exists; once the    *)
(* server has left that phase it never returns to it, and streams exist    *)
(* only while it serves.  So every request is handled against the registry *)
(* as it was when the server began to accept connections.                  *)
(***************************************************************************)
C16_RegisteredBeforeServing ==
    [][/\ (services' # services \/ fileDescriptorProtos' # fileDescriptorProtos) =>
             /\ phase = "registering"
             /\ started = {}
             /\ \A s \in Sessions : received[s] = <<>>
       /\ phase # "registering" => phase' # "registering"
       /\ started' # {} => phase' = "serving"]_vars

\* Two services were registered, the server serves, and a request has been
\* answered.
C16_Witness ==
    /\ phase = "serving"
    /\ Len(services) = 2
    /\ \E s \in Sessions : received[s] # <<>> /\ written[s] # <<>>

\* The three response fields the handler populates.
ResponseFields == {"listServicesResponse", "fileDescriptorResponse", "errorResponse"}

(***************************************************************************)
(* C17: every response written on a stream has exactly one of the fields   *)
(* listServicesResponse, fileDescriptorResponse, errorResponse, and an     *)
(* errorResponse carries NOT_FOUND or UNIMPLEMENTED; a request fails the   *)
(* stream, instead of being answered with such a message, only when its    *)
(* search reached a buffer that does not decode.                           *)
(***************************************************************************)
C17_ResponseShape ==
    \A s \in Sessions :
        /\ \A k \in 1..Len(written[s]) :
             /\ Cardinality(DOMAIN written[s][k] \cap ResponseFields) = 1
             /\ DOMAIN written[s][k] \subseteq ResponseFields
             /\ "errorResponse" \in DOMAIN written[s][k] =>
                   written[s][k].errorResponse.errorCode \in {NOT_FOUND, UNIMPLEMENTED}
        /\ Asked(s) =>
             IF HitsMalformed(TheRequest(s), fileDescriptorProtos)
             THEN thrown[s]
             ELSE ~thrown[s] /\ Len(written[s]) = 1

\* A symbol no stored buffer declares was answered NOT_FOUND over a registry
\* of two groups.
C17_Witness ==
    \E s \in Sessions :
        /\ Asked(s)
        /\ TheRequest(s) = Request(Undefined, sC, Undefined, Undefined, Undefined)
        /\ Len(fileDescriptorProtos) = 2
        /\ written[s] = <<NotFoundResponse>>
        /\ ~thrown[s]

\* The request sets exactly one of listServices, fileContainingSymbol and
\* fileByFilename, to the empty string.
OnlyEmptyString(request) ==
    LET three == {"listServices", "fileContainingSymbol", "fileByFilename"} IN
    /\ \A f \in three : request[f] \in {Undefined, <<>>}
    /\ Cardinality({ f \in three : request[f] = <<>> }) = 1

(***************************************************************************)
(* C18: a request whose one field among listServices, fileContainingSymbol *)
(* and fileByFilename carries the empty string is answered UNIMPLEMENTED,  *)
(* once, and no buffer of the registry is decoded for it: the answer is    *)
(* the same, and the callback does not throw, when the first stored buffer *)
(* does not decode.                                                        *)
(***************************************************************************)
C18_EmptyStringUnimplemented ==
    \A s \in Sessions :
        (Asked(s) /\ OnlyEmptyString(TheRequest(s))) =>
            /\ written[s] = <<UnimplementedResponse>>
            /\ ~thrown[s]

\* fileContainingSymbol carries the empty string and the first stored
\* buffer is unreadable: a search would have thrown.
C18_Witness ==
    \E s \in Sessions :
        /\ Asked(s)
        /\ TheRequest(s) = Request(Undefined, <<>>, Undefined, Undefined, Undefined)
        /\ fileDescriptorProtos = << <<bufBad, bufGreeter>> >>
        /\ written[s] = <<UnimplementedResponse>>
        /\ ~thrown[s]

\* p is the first position, in search order, whose buffer Hit accepts, and
\* every buffer before it is readable.
FirstMatchAt(fdps, p, Hit(_)) ==
    /\ Readable(At(fdps, p)) /\ Hit(At(fdps, p))
    /\ \A q \in Positions(fdps) : Before(q, p) =>
           Readable(At(fdps, q)) /\ ~Hit(At(fdps, q))

\* An unreadable buffer is stored after position p.
MalformedAfter(fdps, p) ==
    \E q \in Positions(fdps) : Before(p, q) /\ ~Readable(At(fdps, q))

(***************************************************************************)
(* C19: when the search of a request finds its first match with an         *)
(* unreadable buffer stored after it (later in the group or in a later     *)
(* group), the request is answered with the group of the match and the     *)
(* callback does not throw; and a listServices request is answered with    *)
(* the list whatever unreadable buffers are stored.                        *)
(***************************************************************************)
C19_StopsAtFirstMatch ==
    \A s \in Sessions : Asked(s) =>
        LET req == TheRequest(s)
            fdps == fileDescriptorProtos
        IN
        /\ \A p \in Positions(fdps) :
             (/\ MalformedAfter(fdps, p)
              /\ \/ /\ IsSymbolRequest(req)
                    /\ FirstMatchAt(fdps, p,
                          LAMBDA buf : DeclaresSymbol(buf, req.fileContainingSymbol))
                 \/ /\ IsFilenameRequest(req)
                    /\ FirstMatchAt(fdps, p,
                          LAMBDA buf : DeclaresFile(buf, req.fileByFilename)))
             => /\ written[s] = <<FileDescriptorResponse(fdps[p[1]])>>
                /\ ~thrown[s]
        /\ (/\ IsListRequest(req)
            /\ \E q \in Positions(fdps) : ~Readable(At(fdps, q)))
           => /\ Len(written[s]) = 1
              /\ DOMAIN written[s][1] = {"listServicesResponse"}
              /\ Len(written[s][1].listServicesResponse.service) = Len(services)
              /\ ~thrown[s]

\* The symbol a.b is declared by the first buffer of a group whose second
\* buffer is unreadable, and the whole group is the answer.
C19_Witness ==
    \E s \in Sessions :
        /\ Asked(s)
        /\ TheRequest(s) = Request(Undefined, sAB, Undefined, Undefined, Undefined)
        /\ fileDescriptorProtos = << <<bufGreeter, bufBad>> >>
        /\ written[s] = <<FileDescriptorResponse(<<bufGreeter, bufBad>>)>>
        /\ ~thrown[s]

====
